---- MODULE Spec2Model ----
(***************************************************************************)
(* Model of download_dataset.py: scan a DynamoDB table page by page,       *)
(* filter the items, download three S3 artifacts per filtered entry on a   *)
(* thread pool, collect the fully downloaded entries and write them to a   *)
(* CSV file.                                                               *)
(*                                                                         *)
(* Strings that the program inspects (S3 locations) are sequences of       *)
(* one-character strings, so that startswith, split, basename and the      *)
(* substring test are computed as the program computes them.               *)
(***************************************************************************)
EXTENDS Integers, Sequences, FiniteSets, TLC

(* ------------------------------- bounds -------------------------------- *)
MaxItems == 2        \* items in the table
MaxWorkers == 2      \* largest --workers value tried
MaxThreshold == 2    \* largest --quality-threshold value tried

(* --------------------------- string helpers ---------------------------- *)
S3Prefix == <<"s", "3", ":", "/", "/">>
MP == <<"M", "P">>

\* str.startswith
StartsWith(s, p) ==
  Len(s) >= Len(p) /\ SubSeq(s, 1, Len(p)) = p

\* the `in` operator on strings
Contains(s, p) ==
  \E i \in 1..(Len(s) - Len(p) + 1) : SubSeq(s, i, i + Len(p) - 1) = p

\* positions of "/" in s
Slashes(s) == {i \in 1..Len(s) : s[i] = "/"}

Min(S) == CHOOSE m \in S : \A n \in S : m <= n
Max(S) == CHOOSE m \in S : \A n \in S : m >= n

\* os.path.basename: what follows the last "/"
basename(s) ==
  IF Slashes(s) = {} THEN s ELSE SubSeq(s, Max(Slashes(s)) + 1, Len(s))

\* parse_s3_path: raises ValueError (ok = FALSE) when the prefix is not
\* s3:// or when nothing separates a bucket from a key
parse_s3_path(s3_path) ==
  IF ~StartsWith(s3_path, S3Prefix)
    THEN [ok |-> FALSE, bucket |-> <<>>, key |-> <<>>]
    ELSE LET path_without_prefix == SubSeq(s3_path, 6, Len(s3_path))
             cut == Slashes(path_without_prefix)
         IN IF cut = {}
              THEN [ok |-> FALSE, bucket |-> <<>>, key |-> <<>>]
              ELSE [ok |-> TRUE,
                    bucket |-> SubSeq(path_without_prefix, 1, Min(cut) - 1),
                    key |-> SubSeq(path_without_prefix, Min(cut) + 1,
                                   Len(path_without_prefix))]

(* ------------------------------ locations ------------------------------ *)
LocVideo1 == S3Prefix \o <<"b", "/", "v", "1">>
LocAudio1 == S3Prefix \o <<"b", "/", "a", "1">>
LocLand1 == S3Prefix \o <<"b", "/", "M", "P", "/", "l", "1">>
LocVideo2 == S3Prefix \o <<"b", "/", "v", "2">>
LocAudio2 == S3Prefix \o <<"b", "/", "a", "2">>
LocLand2 == S3Prefix \o <<"b", "/", "M", "P", "v", "2", "/", "l", "2">>
LocLandOther == S3Prefix \o <<"b", "/", "O", "T", "/", "l", "3">>
LocNoScheme == <<"b", "/", "v", "4">>
LocNoKey == S3Prefix \o <<"b">>
LocVideoOther == S3Prefix \o <<"c", "/", "v", "1">>

(* -------------------------------- items -------------------------------- *)
\* A table item is a function from the attribute names it has to their
\* values; an attribute the item lacks is outside its DOMAIN.  An item
\* without quality_score has the score 0.0 (lines 77, 139).
ItemGood1 ==
  [video_id |-> "id1", quality_score |-> 1, video_path |-> LocVideo1,
   audio_path |-> LocAudio1, landmarks_raw_path |-> LocLand1]
ItemGood2 ==
  [video_id |-> "id2", quality_score |-> 2, video_path |-> LocVideo2,
   audio_path |-> LocAudio2, landmarks_raw_path |-> LocLand2]
ItemNoScore ==
  [video_id |-> "id4", video_path |-> LocVideo2,
   audio_path |-> LocAudio1, landmarks_raw_path |-> LocLand2]
ItemOther ==
  [video_id |-> "id5", quality_score |-> 2, video_path |-> LocVideo1,
   audio_path |-> LocAudio1, landmarks_raw_path |-> LocLandOther]
ItemBadLoc ==
  [video_id |-> "id6", quality_score |-> 2, video_path |-> LocNoScheme,
   audio_path |-> LocNoKey, landmarks_raw_path |-> LocLand1]

\* an item without video_id, which download_files subscripts
ItemNoId ==
  [quality_score |-> 2, video_path |-> LocVideo2,
   audio_path |-> LocAudio2, landmarks_raw_path |-> LocLand2]
\* an item without landmarks_raw_path
ItemNoLand ==
  [video_id |-> "id8", quality_score |-> 2, video_path |-> LocVideo2,
   audio_path |-> LocAudio2]
\* an item whose video is another object with the file name of LocVideo1
ItemSameName ==
  [video_id |-> "id9", quality_score |-> 1, video_path |-> LocVideoOther,
   audio_path |-> LocAudio2, landmarks_raw_path |-> LocLand2]

ItemPool ==
  {ItemGood1, ItemGood2, ItemNoScore, ItemOther, ItemBadLoc,
   ItemNoId, ItemNoLand, ItemSameName}

\* dict.get(key, default)
Get(item, key, default) ==
  IF key \in DOMAIN item THEN item[key] ELSE default

(* ------------------------------ the table ------------------------------ *)
\* The table is the sequence of its items in scan order.  A scan request
\* evaluates the items after ExclusiveStartKey up to a position that the
\* service chooses, and returns them with LastEvaluatedKey, the position
\* of the last item it evaluated; the response that ends the scan has no
\* LastEvaluatedKey.  Position 0 stands for a request without
\* ExclusiveStartKey.
SeqsUpTo(S, n) == UNION {[1..k -> S] : k \in 0..n}

\* the items of a table differ from one another (each has its own key)
Tables ==
  {t \in SeqsUpTo(ItemPool, MaxItems) :
     \A j, k \in 1..Len(t) : j # k => t[j] # t[k]}

\* the responses table.scan(ExclusiveStartKey=key) can give
ScanResponses(tbl, key) ==
  {[Items |-> SubSeq(tbl, key + 1, m), LastEvaluatedKey |-> m] :
     m \in (key + 1)..Len(tbl)}
  \cup {[Items |-> SubSeq(tbl, key + 1, Len(tbl))]}

(* ------------------------------ exceptions ----------------------------- *)
\* How a request to DynamoDB or S3 can fail.  botocore raises ClientError
\* for an error response of the service and a different exception class
\* when no response arrives.
ScanFailures == {"ResourceNotFound", "EndpointConnectionError"}
TransferFailures == {"NotFound", "AccessDenied", "EndpointConnectionError"}

\* the test made by `except ClientError`
IsClientError(e) == e \in {"ResourceNotFound", "NotFound", "AccessDenied"}

(* ------------------------------ local paths ---------------------------- *)
DownloadBaseDir == "d"
Roles == <<"video", "audio", "landmarks">>
RoleSet == {Roles[k] : k \in 1..Len(Roles)}
PathKey(role) ==
  CASE role = "video" -> "video_path"
    [] role = "audio" -> "audio_path"
    [] role = "landmarks" -> "landmarks_raw_path"

\* os.path.join(download_base_dir, role, os.path.basename(s3_path))
JoinPath(base, role, name) ==
  [abs |-> FALSE, base |-> base, sub |-> role, name |-> name]

\* os.path.abspath: a relative path is resolved against the working
\* directory, an absolute path is unchanged
abspath(p) == [p EXCEPT !.abs = TRUE]

\* the value download_from_s3 returns after `except ClientError`
None == [none |-> TRUE]

(* -------------------------------- state -------------------------------- *)
VARIABLES
  table,              \* content of the DynamoDB table
  dynamo,             \* the ways a scan request can fail
  s3,                 \* S3 location -> the ways a download of it can end
  quality_threshold,  \* --quality-threshold
  workers,            \* --workers
  pc,                 \* position of the main thread
  response,           \* last scan response
  items,              \* items received so far
  startKey,           \* ExclusiveStartKey of the last scan request
  filtered_entries,   \* entries that passed the filter
  idx,                \* position of the loop over filtered_entries
  results,            \* rows collected by process_dynamo_entries
  future,             \* the three futures of the current entry
  error,              \* exception travelling up the main thread
  localFiles,         \* local path -> S3 location it was downloaded from
  fetchLog,           \* the calls of download_from_s3 that have begun
  outFile,            \* the CSV file
  sinkCalls           \* number of calls of write_to_csv

\* what a run is given and never changes
inputs == <<table, dynamo, s3, quality_threshold, workers>>

vars ==
  <<table, dynamo, s3, quality_threshold, workers, pc, response, items,
    startKey,
    filtered_entries, idx, results, future, error, localFiles, fetchLog,
    outFile, sinkCalls>>

NoFuture == [st |-> "none", s3_path |-> <<>>, local_path |-> None,
             val |-> None, exc |-> "none"]
NoFutures == [r \in RoleSet |-> NoFuture]
NoFile == [exists |-> FALSE, lines |-> <<>>]

\* the well-formed locations of the items
Locations ==
  {l \in UNION {{item[k] : k \in {"video_path", "audio_path",
                                  "landmarks_raw_path"} \cap DOMAIN item} :
                  item \in ItemPool} :
     parse_s3_path(l).ok}

\* how s3_client.download_file can end
TransferOutcomes == {"ok"} \cup TransferFailures

\* nothing is known about the objects: any download can end in any way
S3Any == [l \in Locations |-> TransferOutcomes]

Init ==
  /\ table \in Tables
  /\ dynamo = ScanFailures
  /\ s3 = S3Any
  /\ quality_threshold \in 0..MaxThreshold
  /\ workers \in 1..MaxWorkers
  /\ pc = "scan"
  /\ response = <<>>
  /\ items = <<>>
  /\ startKey = 0
  /\ filtered_entries = <<>>
  /\ idx = 1
  /\ results = <<>>
  /\ future = NoFutures
  /\ error = "none"
  /\ localFiles = <<>>
  /\ fetchLog = <<>>
  /\ outFile = NoFile
  /\ sinkCalls = 0

(* ------------------------------- scanning ------------------------------ *)
\* a scanner that restarts from the beginning of the table
RestartKey(r) == 0

\* line 127: the ExclusiveStartKey of the request that follows response r
NextStartKey(r) == r.LastEvaluatedKey

\* lines 121-131: the first scan request.  A ClientError makes
\* process_dynamo_entries return [] to main; any other exception is not
\* handled anywhere and ends the run.
Scan ==
  /\ pc = "scan"
  /\ startKey' = 0
  /\ \/ /\ response' \in ScanResponses(table, 0)
        /\ items' = response'.Items
        /\ pc' = "scan_more"
        /\ UNCHANGED <<results, error>>
     \/ \E e \in dynamo :
          /\ IF IsClientError(e)
               THEN results' = <<>> /\ pc' = "write" /\ error' = error
               ELSE pc' = "aborted" /\ error' = e /\ results' = results
          /\ UNCHANGED <<response, items>>
  /\ UNCHANGED <<inputs, fetchLog, filtered_entries, idx,
                 future, localFiles, outFile, sinkCalls>>

\* lines 126-131: one more request while the response has LastEvaluatedKey
ScanMore ==
  /\ pc = "scan_more"
  /\ "LastEvaluatedKey" \in DOMAIN response
  /\ startKey' = NextStartKey(response)
  /\ \/ /\ response' \in ScanResponses(table, startKey')
        /\ items' = items \o response'.Items
        /\ UNCHANGED <<pc, results, error>>
     \/ \E e \in dynamo :
          /\ IF IsClientError(e)
               THEN results' = <<>> /\ pc' = "write" /\ error' = error
               ELSE pc' = "aborted" /\ error' = e /\ results' = results
          /\ UNCHANGED <<response, items>>
  /\ UNCHANGED <<inputs, fetchLog, filtered_entries, idx,
                 future, localFiles, outFile, sinkCalls>>

(* ------------------------------- filtering ----------------------------- *)
\* a filter that forgets the quality threshold
KeepAnyScore(item, threshold) ==
  Contains(Get(item, "landmarks_raw_path", <<>>), MP)

\* a marker test that every landmarks path passes
HasAnyPath(landmarks_path) == TRUE

\* line 145: 'MP' in landmarks_path
HasMarker(landmarks_path) == Contains(landmarks_path, MP)

\* lines 138-146: the condition under which an item is kept
Keep(item, threshold) ==
  /\ HasMarker(Get(item, "landmarks_raw_path", <<>>))
  /\ Get(item, "quality_score", 0) >= threshold

\* lines 136-147
FilterEntries(its, threshold) ==
  SelectSeq(its, LAMBDA item : Keep(item, threshold))

\* lines 126, 133-149: the scan loop ends and the items are filtered.
\* The last response and its start key are not read after the loop and are
\* dropped from the state.
Filter ==
  /\ pc = "scan_more"
  /\ "LastEvaluatedKey" \notin DOMAIN response
  /\ filtered_entries' = FilterEntries(items, quality_threshold)
  /\ idx' = 1
  /\ pc' = "entry"
  /\ response' = <<>>
  /\ startKey' = 0
  /\ UNCHANGED <<inputs, fetchLog, items, results, future,
                 error, localFiles, outFile, sinkCalls>>

(* ------------------------------ downloading ---------------------------- *)
\* lines 76-82: the subscripts that raise KeyError
RequiredKeys == {"video_id", "video_path", "audio_path", "landmarks_raw_path"}

\* lines 85-92: the local destination of the artifact of a role
LocalPath(role, s3_path) ==
  abspath(JoinPath(DownloadBaseDir, role, basename(s3_path)))

\* lines 152-153, 76-103: download_files is called for the next entry and
\* submits the three downloads to a new executor
SubmitDownloads ==
  /\ pc = "entry"
  /\ idx <= Len(filtered_entries)
  /\ LET entry == filtered_entries[idx] IN
       IF RequiredKeys \subseteq DOMAIN entry
         THEN /\ future' = [r \in RoleSet |->
                              [st |-> "queued",
                               s3_path |-> entry[PathKey(r)],
                               local_path |-> LocalPath(r, entry[PathKey(r)]),
                               val |-> None, exc |-> "none"]]
              /\ pc' = "join"
              /\ error' = error
         ELSE /\ pc' = "aborted"
              /\ error' = "KeyError"
              /\ future' = future
  /\ UNCHANGED <<inputs, fetchLog, response, items,
                 startKey, filtered_entries, idx, results, localFiles, outFile,
                 sinkCalls>>

Running == {r \in RoleSet : future[r].st = "running"}

\* an executor that starts a thread for every submitted download
PoolUnbounded(running, max_workers) == TRUE

\* line 100: ThreadPoolExecutor(max_workers=workers) runs at most
\* max_workers downloads at a time
PoolHasRoom(running, max_workers) == Cardinality(running) < max_workers

\* a pool thread takes the oldest queued download; the executor has at most
\* `workers` threads
WorkerStart(k) ==
  /\ future[Roles[k]].st = "queued"
  /\ \A j \in 1..(k - 1) : future[Roles[j]].st # "queued"
  /\ PoolHasRoom(Running, workers)
  /\ future' = [future EXCEPT ![Roles[k]].st = "running"]
  /\ fetchLog' = Append(fetchLog,
                        [entry |-> idx, role |-> Roles[k],
                         s3_path |-> future[Roles[k]].s3_path])
  /\ UNCHANGED <<inputs, pc, response, items,
                 startKey, filtered_entries, idx, results, error, localFiles,
                 outFile, sinkCalls>>

\* s3_client.download_file stores the object at local_path
WriteFile(files, local_path, s3_path) ==
  [p \in DOMAIN files \cup {local_path} |->
     IF p = local_path THEN s3_path ELSE files[p]]

\* a download that is queued again after a ClientError
RetryAfterClientError == "queued"

\* lines 70-72: after a ClientError download_from_s3 returns None and its
\* future is done
AfterClientError == "done"

\* lines 62-72: download_from_s3 in a pool thread.  The future ends with
\* the absolute local path, with None after a ClientError, or with the
\* exception that download_from_s3 did not handle.
WorkerFinish(r) ==
  /\ future[r].st = "running"
  /\ IF ~parse_s3_path(future[r].s3_path).ok
       THEN /\ future' = [future EXCEPT ![r].st = "done",
                                         ![r].exc = "ValueError"]
            /\ localFiles' = localFiles
       ELSE \E e \in s3[future[r].s3_path] :
              IF e = "ok"
                THEN /\ future' = [future EXCEPT
                                     ![r].st = "done",
                                     ![r].val = abspath(future[r].local_path)]
                     /\ localFiles' = WriteFile(localFiles,
                                                future[r].local_path,
                                                future[r].s3_path)
                ELSE /\ future' = [future EXCEPT
                                     ![r].st = IF IsClientError(e)
                                                 THEN AfterClientError
                                                 ELSE "done",
                                     ![r].exc = IF IsClientError(e)
                                                  THEN "none" ELSE e]
                     /\ localFiles' = localFiles
  /\ UNCHANGED <<inputs, fetchLog, pc, response, items,
                 startKey, filtered_entries, idx, results, error, outFile,
                 sinkCalls>>

\* lines 105-107: the result() calls are made in the order video, audio,
\* landmarks; the first future that ended with an exception raises it
RaisedBy(fut) ==
  LET bad == {k \in 1..Len(Roles) : fut[Roles[k]].exc # "none"} IN
  IF bad = {} THEN "none" ELSE fut[Roles[Min(bad)]].exc

\* the results of the video and audio futures stored under each other's key
ResultOfSwapped(entry, fut) ==
  [video_id |-> entry["video_id"],
   quality_score |-> Get(entry, "quality_score", 0),
   local_video_path |-> fut["audio"].val,
   local_audio_path |-> fut["video"].val,
   local_landmark_path |-> fut["landmarks"].val]

\* lines 95-97, 105-107: the dict download_files returns
ResultOf(entry, fut) ==
  [video_id |-> entry["video_id"],
   quality_score |-> Get(entry, "quality_score", 0),
   local_video_path |-> fut["video"].val,
   local_audio_path |-> fut["audio"].val,
   local_landmark_path |-> fut["landmarks"].val]

\* any(result.values()) in place of all(result.values())
AnyValue(result) ==
  \/ result.video_id # ""
  \/ result.quality_score # 0
  \/ result.local_video_path # None
  \/ result.local_audio_path # None
  \/ result.local_landmark_path # None

\* line 154: all(result.values()), the truth value of every value of the
\* dict: a string is false when empty, a number when zero, None always
AllValues(result) ==
  /\ result.video_id # ""
  /\ result.quality_score # 0
  /\ result.local_video_path # None
  /\ result.local_audio_path # None
  /\ result.local_landmark_path # None

\* results.insert(0, result) in place of results.append(result)
InsertResult(rs, result) == <<result>> \o rs

\* line 155: results.append(result)
AppendResult(rs, result) == Append(rs, result)

\* a join that is given up as soon as a download has raised
JoinedOrRaised(fut) ==
  \/ \A r \in RoleSet : fut[r].st = "done"
  \/ \E r \in RoleSet : fut[r].st = "done" /\ fut[r].exc # "none"

\* lines 100, 105-107: the result() calls and the exit of the with block
\* (shutdown(wait=True)) return when every submitted download has ended
Joined(fut) == \A r \in RoleSet : fut[r].st = "done"

\* lines 100-109, 154-155: download_files takes the three results and
\* leaves the with block, which waits for every submitted download.  Then
\* either an exception of a download leaves download_files,
\* process_dynamo_entries and main, or the result is tested and appended.
JoinDownloads ==
  /\ pc = "join"
  /\ Joined(future)
  /\ IF RaisedBy(future) # "none"
       THEN /\ pc' = "aborted"
            /\ error' = RaisedBy(future)
            /\ UNCHANGED <<results, idx, future>>
       ELSE /\ LET result == ResultOf(filtered_entries[idx], future) IN
                 results' = IF AllValues(result)
                              THEN AppendResult(results, result)
                              ELSE results
            /\ idx' = idx + 1
            /\ future' = NoFutures
            /\ pc' = "entry"
            /\ error' = error
  /\ UNCHANGED <<inputs, fetchLog, response, items,
                 startKey, filtered_entries, localFiles, outFile, sinkCalls>>

\* a loop that can be left before its last entry
LoopLeftEarly(i, entries) == TRUE

\* line 152: the for loop ends after the last filtered entry
LoopDone(i, entries) == i > Len(entries)

\* lines 152, 157: the loop is over, results is returned to main
ReturnResults ==
  /\ pc = "entry"
  /\ LoopDone(idx, filtered_entries)
  /\ pc' = "write"
  /\ UNCHANGED <<inputs, fetchLog, response, items,
                 startKey, filtered_entries, idx, results, future, error,
                 localFiles,
                 outFile, sinkCalls>>

(* ------------------------------- reporting ----------------------------- *)
fieldnames ==
  <<"video_id", "local_video_path", "local_audio_path",
    "local_landmark_path", "quality_score">>

\* csv.DictWriter.writerow: the values of the dict in fieldnames order
CsvRow(result) == [k \in 1..Len(fieldnames) |-> result[fieldnames[k]]]

\* a sink without the early return: an empty collection gives a file
\* that holds the header only
CsvFileAlways(rows, file) ==
  [exists |-> TRUE,
   lines |-> <<fieldnames>> \o [k \in 1..Len(rows) |-> CsvRow(rows[k])]]

\* lines 159-176: the file after write_to_csv
CsvFile(rows, file) ==
  IF rows = <<>>
    THEN file
    ELSE [exists |-> TRUE,
          lines |-> <<fieldnames>> \o [k \in 1..Len(rows) |-> CsvRow(rows[k])]]

\* lines 200-202: main calls write_to_csv and ends
write_to_csv ==
  /\ pc = "write"
  /\ sinkCalls' = sinkCalls + 1
  /\ outFile' = CsvFile(results, outFile)
  /\ pc' = "done"
  /\ UNCHANGED <<inputs, fetchLog, response, items,
                 startKey, filtered_entries, idx, results, future, error,
                 localFiles>>

Next ==
  \/ Scan
  \/ ScanMore
  \/ Filter
  \/ SubmitDownloads
  \/ \E k \in 1..Len(Roles) : WorkerStart(k)
  \/ \E r \in RoleSet : WorkerFinish(r)
  \/ JoinDownloads
  \/ ReturnResults
  \/ write_to_csv

Spec == Init /\ [][Next]_vars

(* ---------------------- runs against unchanged objects ----------------- *)
\* The table can be read and the objects of S3 do not change: no scan
\* request fails and every download of a location ends the same way, in
\* this run and in any other.  At most one location fails.
S3Fixed ==
  LET allOk == [l \in Locations |-> {"ok"}] IN
  {allOk} \cup {[allOk EXCEPT ![l] = {e}] : l \in Locations,
                                            e \in TransferFailures}

\* tables of entries that pass the filter at threshold 0
FixedTables ==
  {t \in Tables :
     \A k \in 1..Len(t) :
       t[k] \in {ItemGood1, ItemGood2, ItemNoScore, ItemSameName}}

InitFixed ==
  /\ table \in FixedTables
  /\ dynamo = {}
  /\ s3 \in S3Fixed
  /\ quality_threshold \in 0..MaxThreshold
  /\ workers \in 1..MaxWorkers
  /\ pc = "scan"
  /\ response = <<>>
  /\ items = <<>>
  /\ startKey = 0
  /\ filtered_entries = <<>>
  /\ idx = 1
  /\ results = <<>>
  /\ future = NoFutures
  /\ error = "none"
  /\ localFiles = <<>>
  /\ fetchLog = <<>>
  /\ outFile = NoFile
  /\ sinkCalls = 0

SpecFixed == InitFixed /\ [][Next]_vars

(* ------------------------------- properties ---------------------------- *)
\* every download of the current entry returned a local path
AllFetched(fut) ==
  \A r \in RoleSet :
    fut[r].st = "done" /\ fut[r].exc = "none" /\ fut[r].val # None

\* p is the resolved local path of an artifact of the role
IsResolved(p, role) == p # None /\ p.abs /\ p.sub = role

\* C1: when download_files is over for a filtered entry, a row for the
\* entry is appended to results if and only if its three downloads
\* succeeded, whatever its quality_score and video_id are.
C1_RowIffAllFetched ==
  [][(pc = "join" /\ pc' # "join") =>
       ((results' = Append(results, ResultOf(filtered_entries[idx], future)))
          <=> AllFetched(future))]_vars

\* C2: every row of results, and every row of the CSV file, has a resolved
\* local path for the video, the audio and the landmarks; no row holds
\* None in place of a path.
C2_NoPartialRows ==
  /\ \A k \in 1..Len(results) :
       /\ IsResolved(results[k].local_video_path, "video")
       /\ IsResolved(results[k].local_audio_path, "audio")
       /\ IsResolved(results[k].local_landmark_path, "landmarks")
  /\ \A k \in 2..Len(outFile.lines) :
       /\ IsResolved(outFile.lines[k][2], "video")
       /\ IsResolved(outFile.lines[k][3], "audio")
       /\ IsResolved(outFile.lines[k][4], "landmarks")

\* two entries with non-zero scores passed the filter, a download of one
\* of them failed, and the report holds the row of the other alone
C2_Witness ==
  /\ pc = "done"
  /\ table = <<ItemGood1, ItemGood2>>
  /\ quality_threshold = 0
  /\ Len(results) = 1
  /\ Len(outFile.lines) = 2

\* C3: whatever fails (the scan, a location, a transfer, a record), the
\* run is never aborted by an exception.
C3_NeverAborts == pc # "aborted"

\* C4: a download whose S3 location is malformed ends as a failed fetch
\* (None), not with an exception.
C4_MalformedLocationIsFailure ==
  \A r \in RoleSet :
    (future[r].st = "done" /\ ~parse_s3_path(future[r].s3_path).ok)
      => (future[r].exc = "none" /\ future[r].val = None)

\* C5: a download of a well-formed location never ends with an exception:
\* every transfer error gives None.
C5_TransferErrorIsFailure ==
  \A r \in RoleSet :
    (future[r].st = "done" /\ parse_s3_path(future[r].s3_path).ok)
      => future[r].exc = "none"

\* C6: a scan request that fails, the first one or a later one, makes
\* process_dynamo_entries return an empty collection to main.
C6_ScanFailureYieldsEmpty ==
  [][(pc \in {"scan", "scan_more"} /\ pc' \notin {"scan_more", "entry"}) =>
       (pc' = "write" /\ results' = <<>>)]_vars

\* the row of a fully downloaded entry
RowOf(entry) ==
  [video_id |-> entry["video_id"],
   quality_score |-> Get(entry, "quality_score", 0),
   local_video_path |-> LocalPath("video", entry["video_path"]),
   local_audio_path |-> LocalPath("audio", entry["audio_path"]),
   local_landmark_path |-> LocalPath("landmarks", entry["landmarks_raw_path"])]

\* C7: the rows of results are rows of filtered entries taken in the order
\* of filtered_entries, each entry giving at most one row.
C7_RowsInScanOrder ==
  \E f \in [1..Len(results) -> 1..Len(filtered_entries)] :
    /\ \A k \in 1..Len(results) : results[k] = RowOf(filtered_entries[f[k]])
    /\ \A j, k \in 1..Len(results) : j < k => f[j] < f[k]

\* two different entries were downloaded by two pool threads and both
\* are in the report
C7_Witness ==
  /\ pc = "done"
  /\ workers >= 2
  /\ Len(results) = 2
  /\ results[1].video_id # results[2].video_id

\* C8: every row of results and of the CSV file has a quality_score of at
\* least quality_threshold.
C8_QualityAtLeastThreshold ==
  /\ \A k \in 1..Len(results) : results[k].quality_score >= quality_threshold
  /\ \A k \in 2..Len(outFile.lines) : outFile.lines[k][5] >= quality_threshold

\* with threshold 2 the table held an entry of score 1 and the report has
\* one row
C8_Witness ==
  /\ pc = "done"
  /\ quality_threshold = 2
  /\ \E k \in 1..Len(table) : table[k] = ItemGood1
  /\ Len(results) = 1
  /\ Len(outFile.lines) = 2

\* C9: while no scan request fails, the items received are the items of
\* the table up to the last key evaluated, every request starts where the
\* response before it ended, and once the entries are filtered the items
\* are the whole table in table order.
C9_PaginationComplete ==
  LET evaluated == IF "LastEvaluatedKey" \in DOMAIN response
                     THEN response.LastEvaluatedKey
                     ELSE Len(table)
  IN /\ pc = "scan_more" =>
          /\ items = SubSeq(table, 1, evaluated)
          /\ startKey + Len(response.Items) = evaluated
     /\ (pc \in {"entry", "join"} \/ filtered_entries # <<>>) =>
          /\ items = table
          /\ filtered_entries = FilterEntries(table, quality_threshold)

\* a table of two items was read to its end in more than one page
C9_Witness ==
  /\ pc = "scan_more"
  /\ "LastEvaluatedKey" \notin DOMAIN response
  /\ startKey >= 1
  /\ Len(items) = 2

\* C10: when main has ended, write_to_csv was called once; with an empty
\* collection the file was not touched, otherwise it holds the header and
\* then one row per element of results, in the order of results and with
\* the columns in the order of fieldnames.
C10_SinkWrites ==
  pc = "done" =>
    /\ sinkCalls = 1
    /\ results = <<>> => outFile = NoFile
    /\ results # <<>> =>
         /\ outFile.exists
         /\ Len(outFile.lines) = Len(results) + 1
         /\ outFile.lines[1] = fieldnames
         /\ \A k \in 1..Len(results) :
              outFile.lines[k + 1] =
                <<results[k].video_id, results[k].local_video_path,
                  results[k].local_audio_path, results[k].local_landmark_path,
                  results[k].quality_score>>

\* entries were downloaded, none gave a row, and the sink left no file
C10_Witness ==
  /\ pc = "done"
  /\ sinkCalls = 1
  /\ filtered_entries # <<>>
  /\ results = <<>>
  /\ ~outFile.exists

\* C11: a filtered entry that lacks video_id or one of the three
\* locations is skipped: it gives no row and the loop goes on with the
\* next entry.
C11_MalformedRecordOnlyFailsItself ==
  [][(/\ pc = "entry"
      /\ idx <= Len(filtered_entries)
      /\ ~(RequiredKeys \subseteq DOMAIN filtered_entries[idx]))
       => (pc' = "entry" /\ idx' = idx + 1 /\ results' = results)]_vars

\* the way every download of location l ends when the objects are fixed
OutcomeOf(l) == CHOOSE e \in s3[l] : TRUE

\* the report of a run that read the whole table, computed entry by entry
\* from the table, the threshold and the objects alone
ReportOf(tbl, threshold) ==
  LET fetched(entry) ==
        \A k \in {"video_path", "audio_path", "landmarks_raw_path"} :
          OutcomeOf(entry[k]) = "ok"
      kept == SelectSeq(FilterEntries(tbl, threshold),
                        LAMBDA entry : /\ fetched(entry)
                                       /\ Get(entry, "quality_score", 0) # 0)
  IN [k \in 1..Len(kept) |-> RowOf(kept[k])]

\* C12: with the table readable and the objects fixed, the report of a
\* run is a function of the table, the threshold and the objects: two
\* such runs give the same rows in the same order however their downloads
\* interleave.
C12_ReportIsFunctionOfInputs ==
  pc \in {"write", "done"} => results = ReportOf(table, quality_threshold)

\* two pool threads, three entries or two, one object missing: one entry
\* is dropped and the others are reported
C12_Witness ==
  /\ pc = "done"
  /\ workers >= 2
  /\ Len(filtered_entries) >= 2
  /\ \E l \in Locations : s3[l] # {"ok"}
  /\ Len(results) = 1

\* C13: while download_files runs, the three downloads of the entry have
\* been submitted, and download_files ends (with its result or with an
\* exception) only when each of the three has ended.
C13_JoinBarrier ==
  /\ [](pc = "join" => \A r \in RoleSet : future[r].st # "none")
  /\ [][(pc = "join" /\ pc' # "join") =>
          \A r \in RoleSet : future[r].st = "done"]_vars

\* the video download failed and the two others still ran to their end
C13_Witness ==
  /\ pc = "join"
  /\ \A r \in RoleSet : future[r].st = "done"
  /\ future["video"].val = None
  /\ future["audio"].val # None
  /\ future["landmarks"].val # None

\* C14: the downloads that are queued, running or done are those of the
\* entry the loop is at; outside download_files none is queued or
\* running, so the downloads of an entry begin after those of the entry
\* before it have all ended; and at most min(3, workers) run at a time.
C14_RecordsSerialized ==
  /\ Cardinality(Running) <= Min({3, workers})
  /\ \A r \in RoleSet :
       future[r].st # "none" =>
         /\ idx <= Len(filtered_entries)
         /\ future[r].s3_path = filtered_entries[idx][PathKey(r)]
  /\ pc # "join" =>
       \A r \in RoleSet : future[r].st \notin {"queued", "running"}

\* the second entry is being downloaded: both pool threads are busy and
\* the third download waits for one of them
C14_Witness ==
  /\ idx = 2
  /\ workers = 2
  /\ Cardinality(Running) = 2
  /\ \E r \in RoleSet : future[r].st = "queued"

\* the downloads that have begun, as pairs of entry and role
Begun == {<<fetchLog[k].entry, fetchLog[k].role>> : k \in 1..Len(fetchLog)}

\* C15: no download is begun twice for the same entry and role; every
\* download begun is that of a filtered entry; each role of every entry
\* the loop has passed was downloaded, and so far of the current entry
\* exactly the roles whose future is running or done.
C15_SingleAttempt ==
  /\ Cardinality(Begun) = Len(fetchLog)
  /\ \A k \in 1..Len(fetchLog) :
       /\ fetchLog[k].entry \in 1..Len(filtered_entries)
       /\ fetchLog[k].s3_path =
            filtered_entries[fetchLog[k].entry][PathKey(fetchLog[k].role)]
  /\ Begun = ((1..(idx - 1)) \X RoleSet)
               \cup ({idx} \X {r \in RoleSet :
                                   future[r].st \in {"running", "done"}})

\* a download of the first entry failed with a ClientError, the run went
\* on to the end, and each of the six downloads was begun once
C15_Witness ==
  /\ pc = "done"
  /\ table = <<ItemGood1, ItemGood2>>
  /\ quality_threshold = 0
  /\ Len(results) = 1
  /\ results[1].video_id = "id2"
  /\ Len(fetchLog) = 6

\* the phase of the run at a control point; a run that an exception ended
\* stays where it is
Phase(at) ==
  CASE at \in {"scan", "scan_more"} -> 1
    [] at \in {"entry", "join"} -> 2
    [] at = "write" -> 3
    [] at = "done" -> 4
    [] at = "aborted" -> 5

\* C16: the run never goes back to an earlier phase; while it scans no
\* download has begun or been submitted; a download has begun only after
\* every page was received and the filter was applied to every item; the
\* sink is called at most once, and when it is called or about to be, the
\* loop has passed every filtered entry, all of their downloads were made
\* and none is pending.
C16_PhaseOrder ==
  /\ [][Phase(pc') >= Phase(pc)]_vars
  /\ [](pc \in {"scan", "scan_more"} =>
          /\ fetchLog = <<>>
          /\ future = NoFutures
          /\ sinkCalls = 0)
  /\ []((fetchLog # <<>> \/ future # NoFutures) =>
          /\ items = table
          /\ filtered_entries = FilterEntries(items, quality_threshold))
  /\ [](sinkCalls = (IF pc = "done" THEN 1 ELSE 0))
  /\ [](pc \in {"write", "done"} =>
          /\ idx > Len(filtered_entries)
          /\ Begun = (1..Len(filtered_entries)) \X RoleSet
          /\ future = NoFutures)

\* the sink was called after the six downloads of two filtered entries
C16_Witness ==
  /\ pc = "done"
  /\ sinkCalls = 1
  /\ Len(filtered_entries) = 2
  /\ Len(fetchLog) = 6
  /\ outFile.exists

\* the filter condition, read from the attributes of the item
Passes(item) ==
  /\ "landmarks_raw_path" \in DOMAIN item
  /\ \E i \in 1..(Len(item.landmarks_raw_path) - 1) :
       /\ item.landmarks_raw_path[i] = "M"
       /\ item.landmarks_raw_path[i + 1] = "P"
  /\ (IF "quality_score" \in DOMAIN item THEN item.quality_score ELSE 0)
       >= quality_threshold

C18_RowFilesAreOwn ==
  pc \in {"write", "done"} =>
    \A k \in 1..Len(results) :
      \A j \in 1..Len(filtered_entries) :
        LET entry == filtered_entries[j] IN
          (RequiredKeys \subseteq DOMAIN entry
             /\ entry.video_id = results[k].video_id) =>
            \A r \in RoleSet :
              LET p == LocalPath(r, entry[PathKey(r)]) IN
                p \in DOMAIN localFiles /\ localFiles[p] = entry[PathKey(r)]

====
